---- MODULE Spec2Model ----
(***************************************************************************)
(* Model of the document-converter-service: the Express application of     *)
(* server.ts (two builds of it are in the repository), its JWT gate        *)
(* authenticateJWT (auth.ts), the CORS policy (cors.ts), the upload        *)
(* validation (utils.ts) and the conversion handlers.                      *)
(*                                                                         *)
(* Strings are TLA+ strings; the JavaScript string methods the code uses   *)
(* (startsWith, substring, split, trim, toLowerCase, includes) are         *)
(* computed character by character.  Time is in seconds, as               *)
(* jsonwebtoken compares Math.floor(Date.now() / 1000) with exp.           *)
(***************************************************************************)
EXTENDS Integers, Sequences, FiniteSets, TLC

(***************************************************************************)
(* Bounds of the model.                                                    *)
(***************************************************************************)
\* the clock visits 0..MaxSkew and TTL-1..TTL+MaxSkew
MaxSkew == 1

(***************************************************************************)
(* Program constants.                                                      *)
(***************************************************************************)
\* auth.ts:80  expiresIn: '1h'
TTL == 3600
\* auth.ts:33  authHeader.substring(7)
PrefixLen == 7
\* auth.ts:26  the literal scheme prefix
BearerPrefix == "Bearer "
\* auth.ts:39, auth.ts:78  the expected service identifier
ExpectedService == "learnkata-backend"
\* a numeric claim that the payload does not carry (iat?: number, exp?: number)
NoClaim == -1

(***************************************************************************)
(* JavaScript string methods.                                              *)
(***************************************************************************)
CharAt(s, i) == SubSeq(s, i, i)

\* String.prototype.startsWith
StartsWith(s, p) == Len(s) >= Len(p) /\ SubSeq(s, 1, Len(p)) = p

\* String.prototype.substring(n): the characters from (0-based) index n on
Substring(s, n) == SubSeq(s, n + 1, Len(s))

RECURSIVE SplitFrom(_, _, _, _)
SplitFrom(s, sep, i, start) ==
  IF i > Len(s) THEN <<SubSeq(s, start, Len(s))>>
  ELSE IF CharAt(s, i) = sep
       THEN <<SubSeq(s, start, i - 1)>> \o SplitFrom(s, sep, i + 1, i + 1)
       ELSE SplitFrom(s, sep, i + 1, start)

\* String.prototype.split on a one-character separator
Split(s, sep) == SplitFrom(s, sep, 1, 1)

RECURSIVE TrimLeft(_)
TrimLeft(s) == IF Len(s) > 0 /\ CharAt(s, 1) = " " THEN TrimLeft(Substring(s, 1)) ELSE s

RECURSIVE TrimRight(_)
TrimRight(s) ==
  IF Len(s) > 0 /\ CharAt(s, Len(s)) = " " THEN TrimRight(SubSeq(s, 1, Len(s) - 1)) ELSE s

\* String.prototype.trim
Trim(s) == TrimRight(TrimLeft(s))

LowerChar(c) ==
  CASE c = "D" -> "d" [] c = "O" -> "o" [] c = "C" -> "c" [] c = "X" -> "x"
    [] c = "P" -> "p" [] c = "T" -> "t" [] c = "A" -> "a" [] OTHER -> c

RECURSIVE ToLowerCase(_)
ToLowerCase(s) ==
  IF Len(s) = 0 THEN s ELSE LowerChar(CharAt(s, 1)) \o ToLowerCase(Substring(s, 1))

\* Array.prototype.includes
Includes(arr, x) == \E i \in 1..Len(arr) : arr[i] = x

\* Array.prototype.pop() of a non-empty array: its last element
Pop(arr) == arr[Len(arr)]

(***************************************************************************)
(* The clock and the claim values of the model.                            *)
(***************************************************************************)
Instants == (0..MaxSkew) \cup ((TTL - 1)..(TTL + MaxSkew))

\* the numbers that occur in encoded payloads: the instants and the expiry
\* of a token issued at one of them
ParsableTimes == Instants \cup {t + TTL : t \in Instants}

(***************************************************************************)
(* Tokens: header "." payload "." signature, as jsonwebtoken builds and    *)
(* reads them.  The payload is the encoded claims object of JWTPayload;    *)
(* the signature is a keyed digest of "header.payload".                    *)
(***************************************************************************)
\* the encoded JOSE header {alg: 'HS256', typ: 'JWT'}
JoseHeader == "H"

TimeStr(t) == IF t = NoClaim THEN "" ELSE ToString(t)

\* the encoded claims object {service, iat, exp}
EncodePayload(c) == c.service \o "," \o TimeStr(c.iat) \o "," \o TimeStr(c.exp)

RECURSIVE Base64Url(_)
\* the base64url text of a digest: no "." occurs in it
Base64Url(s) ==
  IF Len(s) = 0 THEN s
  ELSE (IF CharAt(s, 1) = "." THEN "_" ELSE CharAt(s, 1)) \o Base64Url(Substring(s, 1))

\* the HMAC of the signing input under a secret, base64url-encoded
Hmac(secret, input) == Base64Url(secret \o "/" \o input)

\* jwt.sign of a claims object: header.payload.signature
SignClaims(c, secret) ==
  LET input == JoseHeader \o "." \o EncodePayload(c)
  IN  input \o "." \o Hmac(secret, input)

\* a numeric claim read back from its encoding; -2 when it is not a number
ParseTime(s) ==
  IF s = "" THEN NoClaim
  ELSE IF \E t \in ParsableTimes : ToString(t) = s
       THEN CHOOSE t \in ParsableTimes : ToString(t) = s
       ELSE -2

\* JSON.parse of the payload part: the claims object, or a SyntaxError
DecodePayload(p) ==
  LET f == Split(p, ",")
  IN  IF Len(f) # 3 \/ ParseTime(f[2]) = -2 \/ ParseTime(f[3]) = -2
      THEN [ok |-> FALSE, claims |-> [service |-> "", iat |-> NoClaim, exp |-> NoClaim]]
      ELSE [ok |-> TRUE,
            claims |-> [service |-> f[1], iat |-> ParseTime(f[2]), exp |-> ParseTime(f[3])]]

NoPayload == [service |-> "", iat |-> NoClaim, exp |-> NoClaim]

\* error instanceof cls, for the error classes of jsonwebtoken
InstanceOf(err, cls) ==
  \/ err = cls
  \/ cls = "JsonWebTokenError" /\ err \in {"TokenExpiredError", "NotBeforeError"}

\* a verification that checks no signature (jwt.decode in place of jwt.verify)
SignatureValidUnchecked(parts, secret) == TRUE

\* jws.verify: the signature part is the HMAC of "header.payload" under the secret
SignatureValid(parts, secret) == parts[3] = Hmac(secret, parts[1] \o "." \o parts[2])

\* a verification with ignoreExpiration
ExpiredIgnored(claims, t) == FALSE


\* a verification that requires the exp claim
ExpiredWhenAbsent(claims, t) == claims.exp = NoClaim \/ t >= claims.exp

\* the exp check of jwt.verify: clockTimestamp >= payload.exp
Expired(claims, t) == claims.exp # NoClaim /\ t >= claims.exp

Thrown(name, msg) == [error |-> name, message |-> msg, payload |-> NoPayload]

\* jwt.verify(token, secret) at clock timestamp t: the decoded payload, or
\* the error it throws
JwtVerify(token, secret, t) ==
  IF token = "" THEN Thrown("JsonWebTokenError", "jwt must be provided")
  ELSE LET parts == Split(token, ".")
       IN  IF Len(parts) # 3 THEN Thrown("JsonWebTokenError", "jwt malformed")
           ELSE IF parts[1] # JoseHeader THEN Thrown("JsonWebTokenError", "invalid token")
           ELSE LET d == DecodePayload(parts[2])
                IN  IF ~d.ok THEN Thrown("SyntaxError", "Unexpected token in JSON")
                    ELSE IF Trim(parts[3]) = ""
                         THEN Thrown("JsonWebTokenError", "jwt signature is required")
                    ELSE IF ~SignatureValid(parts, secret)
                         THEN Thrown("JsonWebTokenError", "invalid signature")
                    ELSE IF Expired(d.claims, t)
                         THEN Thrown("TokenExpiredError", "jwt expired")
                    ELSE [error |-> "none", message |-> "", payload |-> d.claims]

(***************************************************************************)
(* cors.ts: the origin policy of configureCors.                            *)
(***************************************************************************)

\* a list read without .map(origin => origin.trim())
AllowedOriginsOfUntrimmed(envValue) ==
  IF envValue = "" THEN <<>> ELSE Split(envValue, ",")

\* process.env.ALLOWED_ORIGINS ? ...split(',').map(origin => origin.trim()) : []
AllowedOriginsOf(envValue) ==
  IF envValue = "" THEN <<>>
  ELSE LET raw == Split(envValue, ",") IN [i \in 1..Len(raw) |-> Trim(raw[i])]

\* the origin callback of configureCors: "allow" for callback(null, true),
\* "error" for callback(new Error(...)); an absent Origin header is ""
OriginCallback(origin, envValue) ==
  LET allowedOrigins == AllowedOriginsOf(envValue)
  IN  IF origin = "" THEN "allow"
      ELSE IF Len(allowedOrigins) > 0
           THEN IF Includes(allowedOrigins, origin) THEN "allow" ELSE "error"
           ELSE "allow"

CorsErrorMessage(origin) == "Origin " \o origin \o " not allowed by CORS"

(***************************************************************************)
(* utils.ts: upload validation.                                            *)
(***************************************************************************)
DocxMime == "application/vnd.openxmlformats-officedocument.wordprocessingml.document"
PptxMime == "application/vnd.openxmlformats-officedocument.presentationml.presentation"
PptMime == "application/vnd.ms-powerpoint"
OctetStream == "application/octet-stream"

\* the shared shape of validateDocxFile and validatePptxFile
ValidateFile(file, ext, validMimeTypes, extError, mimeError) ==
  LET extension == Pop(Split(ToLowerCase(file.originalname), "."))
  IN  IF extension # ext THEN [valid |-> FALSE, error |-> extError]
      ELSE IF ~Includes(validMimeTypes, file.mimetype)
           THEN [valid |-> FALSE, error |-> mimeError]
           ELSE [valid |-> TRUE, error |-> ""]

validateDocxFile(file) ==
  ValidateFile(file, "docx", <<DocxMime, OctetStream>>,
               "File must have .docx extension",
               "Invalid file type. Only DOCX files are allowed")

validatePptxFile(file) ==
  ValidateFile(file, "pptx", <<PptxMime, OctetStream>>,
               "File must have .pptx extension",
               "Invalid file type. Only PPTX files are allowed")

\* validatePptFile is imported by the second build of server.ts; its body is
\* not among the sources
validatePptFile(file) ==
  ValidateFile(file, "ppt", <<PptMime, OctetStream>>,
               "File must have .ppt extension",
               "Invalid file type. Only PPT files are allowed")

(***************************************************************************)
(* auth.ts: the decision of authenticateJWT and the response of each       *)
(* branch.                                                                 *)
(***************************************************************************)
\* req.headers.authorization: undefined, or a string
NoAuthorization == [present |-> FALSE, value |-> ""]

AuthorizationHeader(v) == [present |-> TRUE, value |-> v]

\* a scheme test that forgets the space: startsWith('Bearer')
HeaderRejectedNoSpace(h) == ~h.present \/ h.value = "" \/ ~StartsWith(h.value, "Bearer")

\* !authHeader || !authHeader.startsWith('Bearer ')
HeaderRejected(h) == ~h.present \/ h.value = "" \/ ~StartsWith(h.value, BearerPrefix)

\* a prefix removal that is one short: substring(6)
TokenOfOneShort(h) == Substring(h.value, PrefixLen - 1)

\* const token = authHeader.substring(7)
TokenOf(h) == Substring(h.value, PrefixLen)

\* a service test that only asks for the claim to be there: !decoded.service
ServiceMismatchPresenceOnly(payload) == payload.service = ""

\* decoded.service !== 'learnkata-backend'
ServiceMismatch(payload) == payload.service # ExpectedService

\* a catch block that tests the general JsonWebTokenError first
CatchKindGeneralFirst(err) ==
  IF InstanceOf(err, "JsonWebTokenError") THEN "InvalidCredential"
  ELSE IF InstanceOf(err, "TokenExpiredError") THEN "ExpiredCredential"
  ELSE "VerificationMechanismFault"


\* a catch block without its last branch: whatever is not an expiry is
\* answered as an invalid token
CatchKindNoFallback(err) ==
  IF InstanceOf(err, "TokenExpiredError") THEN "ExpiredCredential"
  ELSE "InvalidCredential"

\* the catch block: the first instanceof test that matches names the kind
CatchKind(err) ==
  IF InstanceOf(err, "TokenExpiredError") THEN "ExpiredCredential"
  ELSE IF InstanceOf(err, "JsonWebTokenError") THEN "InvalidCredential"
  ELSE "VerificationMechanismFault"

\* a rejecting branch without its return: the response is sent and the
\* code runs on to next()
RejectFallsThrough(kind, verified) ==
  [kind |-> kind, verified |-> verified, next |-> 1, sent |-> 1,
   attached |-> FALSE, payload |-> NoPayload]


\* claims attached before the branches that reject
RejectKeepsAttachment(kind, verified) ==
  [kind |-> kind, verified |-> verified, next |-> 0, sent |-> 1,
   attached |-> TRUE, payload |-> NoPayload]

\* a branch that ends in return res.status(...).json(...)
Reject(kind, verified) ==
  [kind |-> kind, verified |-> verified, next |-> 0, sent |-> 1,
   attached |-> FALSE, payload |-> NoPayload]


\* a gate that reads the service of the decoded payload before it verifies
\* the token
AuthDecisionServiceFirst(h, secret, t) ==
  IF HeaderRejected(h) THEN Reject("MissingOrMalformedCredential", 0)
  ELSE LET parts == Split(TokenOf(h), ".")
           d == IF Len(parts) = 3 THEN DecodePayload(parts[2])
                ELSE [ok |-> FALSE, claims |-> NoPayload]
           v == JwtVerify(TokenOf(h), secret, t)
       IN  IF d.ok /\ ServiceMismatch(d.claims) THEN Reject("WrongPrincipal", 0)
           ELSE IF v.error = "none"
           THEN [kind |-> "Admitted", verified |-> 1, next |-> 1, sent |-> 0,
                 attached |-> TRUE, payload |-> v.payload]
           ELSE Reject(CatchKind(v.error), 1)

\* the branch authenticateJWT takes for a header, the configured secret and
\* the clock: how often it calls jwt.verify, next() and res.json(), and what
\* it attaches to the request
AuthDecision(h, secret, t) ==
  IF HeaderRejected(h) THEN Reject("MissingOrMalformedCredential", 0)
  ELSE LET v == JwtVerify(TokenOf(h), secret, t)
       IN  IF v.error = "none"
           THEN IF ServiceMismatch(v.payload) THEN Reject("WrongPrincipal", 1)
                ELSE [kind |-> "Admitted", verified |-> 1, next |-> 1, sent |-> 0,
                      attached |-> TRUE, payload |-> v.payload]
           ELSE Reject(CatchKind(v.error), 1)

\* a mapping that answers every rejection with 401 Unauthorized
RejectionBodyAll401(kind) ==
  CASE kind = "MissingOrMalformedCredential" ->
         [status |-> 401, error |-> "Unauthorized",
          message |-> "Missing or invalid authorization header. Expected: Bearer <token>"]
    [] kind = "WrongPrincipal" ->
         [status |-> 401, error |-> "Unauthorized", message |-> "Invalid service identifier"]
    [] kind = "ExpiredCredential" ->
         [status |-> 401, error |-> "Unauthorized", message |-> "Token has expired"]
    [] kind = "InvalidCredential" ->
         [status |-> 401, error |-> "Unauthorized", message |-> "Invalid token"]
    [] OTHER ->
         [status |-> 500, error |-> "Internal server error",
          message |-> "Token verification failed"]


\* a mapping that answers an expired token like an invalid one
RejectionBodyExpiredAsInvalid(kind) ==
  CASE kind = "MissingOrMalformedCredential" ->
         [status |-> 401, error |-> "Unauthorized",
          message |-> "Missing or invalid authorization header. Expected: Bearer <token>"]
    [] kind = "WrongPrincipal" ->
         [status |-> 403, error |-> "Forbidden", message |-> "Invalid service identifier"]
    [] kind \in {"ExpiredCredential", "InvalidCredential"} ->
         [status |-> 401, error |-> "Unauthorized", message |-> "Invalid token"]
    [] OTHER ->
         [status |-> 500, error |-> "Internal server error",
          message |-> "Token verification failed"]

\* res.status(...).json({error, message}) of each rejecting branch
RejectionBody(kind) ==
  CASE kind = "MissingOrMalformedCredential" ->
         [status |-> 401, error |-> "Unauthorized",
          message |-> "Missing or invalid authorization header. Expected: Bearer <token>"]
    [] kind = "WrongPrincipal" ->
         [status |-> 403, error |-> "Forbidden", message |-> "Invalid service identifier"]
    [] kind = "ExpiredCredential" ->
         [status |-> 401, error |-> "Unauthorized", message |-> "Token has expired"]
    [] kind = "InvalidCredential" ->
         [status |-> 401, error |-> "Unauthorized", message |-> "Invalid token"]
    [] OTHER ->
         [status |-> 500, error |-> "Internal server error",
          message |-> "Token verification failed"]

\* a minting with expiresIn: 0
generateTokenExpiresAtOnce(secret, t) ==
  SignClaims([service |-> ExpectedService, iat |-> t, exp |-> t], secret)

\* a minting without expiresIn
generateTokenNoExpiry(secret, t) ==
  SignClaims([service |-> ExpectedService, iat |-> t, exp |-> NoClaim], secret)

\* generateToken(): jwt.sign({service: 'learnkata-backend'}, JWT_SECRET, {expiresIn: '1h'})
generateToken(secret, t) ==
  SignClaims([service |-> ExpectedService, iat |-> t, exp |-> t + TTL], secret)

\* a start-up check that only warns
SecretMissingTolerated(secret) == FALSE

\* auth.ts:8  if (!JWT_SECRET): unset and empty are both falsy
SecretMissing(secret) == secret = ""

(***************************************************************************)
(* The inputs of the model.                                                *)
(***************************************************************************)
\* values of process.env.JWT_SECRET; "" is unset (or empty)
SecretValues == {"", "s1"}

\* secrets a token can be signed with
SigningSecrets == {"s1", "s2"}

\* values of process.env.NODE_ENV; "" is unset
NodeEnvValues == {"", "development", "production"}

\* values of process.env.ALLOWED_ORIGINS; "" is unset
AllowedOriginsValues == {"", "http://a, http://b"}

\* the two builds of server.ts in the repository
Builds == {"server.ts", "part_002"}

\* request lines clients send
RequestLines ==
  { [method |-> "GET", path |-> "/health"],
    [method |-> "GET", path |-> "/test/token"],
    [method |-> "POST", path |-> "/convert/docx"],
    [method |-> "POST", path |-> "/convert/pptx"],
    [method |-> "POST", path |-> "/convert/ppt"],
    [method |-> "OPTIONS", path |-> "/convert/docx"] }

\* values of the Origin header; "" is no header
Origins == {"", "http://b", "http://evil"}

\* request bodies as express.json() sees them
Bodies == {"multipart", "json", "badjson"}

\* values of the service claim; "" is a payload without it
ServiceValues == {ExpectedService, "backend-y", ""}


\* the claims of a token signed at instant 0 without expiresIn
NeverExpiring == [service |-> ExpectedService, iat |-> 0, exp |-> NoClaim]

\* the claims of the tokens clients present
PresentedClaims ==
  [service : ServiceValues, iat : {NoClaim}, exp : {NoClaim} \cup Instants]
    \cup {NeverExpiring}

\* token strings that are not signed claims objects: empty, without dots,
\* two parts, a bad header part, a payload that does not parse, no signature
OddTokens ==
  {"", "garbage", "H.x", "Z.x.y", "H.{oops.sig", "H.learnkata-backend,soon,.sig",
   "H." \o EncodePayload([service |-> ExpectedService, iat |-> NoClaim, exp |-> NoClaim]) \o "."}

PresentedTokens ==
  {SignClaims(c, k) : c \in PresentedClaims, k \in SigningSecrets} \cup OddTokens

\* a token that verifies under "s1" at every instant, for the headers whose
\* scheme is wrong
EternalToken ==
  SignClaims([service |-> ExpectedService, iat |-> NoClaim, exp |-> NoClaim], "s1")

\* values of the Authorization header
AuthorizationHeaders ==
  {NoAuthorization, AuthorizationHeader("")}
    \cup {AuthorizationHeader(BearerPrefix \o tok) : tok \in PresentedTokens}
    \cup {AuthorizationHeader(p \o EternalToken) :
            p \in {"", "bearer ", "Bearer", "Basic ", " Bearer "}}

\* the tokens the issuing side mints with generateToken: the instant of
\* minting, the secret of the issuer, the claims signed and the header that
\* carries the token
Issuances ==
  {[at |-> t, secret |-> k,
    claims |-> [service |-> ExpectedService, iat |-> t, exp |-> t + TTL],
    header |-> AuthorizationHeader(BearerPrefix \o generateToken(k, t))] :
     t \in Instants, k \in SigningSecrets}

\* the headers a request can carry at instant t: a minted token is presented
\* at the instant of its minting or later
HeadersAt(t) ==
  AuthorizationHeaders \cup {i.header : i \in {j \in Issuances : j.at <= t}}

\* server.ts:20  fileSize: 50 * 1024 * 1024, in MB
FileSizeLimitMB == 50

NoFile == [originalname |-> "", mimetype |-> "", sizeMB |-> 0]

\* uploaded files: the multipart field 'file'
Uploads ==
  { [originalname |-> "a.docx", mimetype |-> DocxMime, sizeMB |-> 1],
    [originalname |-> "A.DOCX", mimetype |-> OctetStream, sizeMB |-> 1],
    [originalname |-> "a.docx", mimetype |-> "application/pdf", sizeMB |-> 1],
    [originalname |-> "a.docx.exe", mimetype |-> OctetStream, sizeMB |-> 1],
    [originalname |-> "docx", mimetype |-> DocxMime, sizeMB |-> 1],
    [originalname |-> "a.pptx", mimetype |-> PptxMime, sizeMB |-> 1],
    [originalname |-> "a.ppt", mimetype |-> PptMime, sizeMB |-> 1],
    [originalname |-> "a.docx", mimetype |-> DocxMime, sizeMB |-> 51] }

(***************************************************************************)
(* server.ts: route registration.                                          *)
(***************************************************************************)
HealthRoute == [method |-> "GET", path |-> "/health"]

TestTokenRoute == [method |-> "GET", path |-> "/test/token"]

\* the routes registered with authenticateJWT as their first handler
ProtectedRoutes(b) ==
  { [method |-> "POST", path |-> "/convert/docx"],
    [method |-> "POST", path |-> "/convert/pptx"] }
    \cup (IF b = "part_002" THEN {[method |-> "POST", path |-> "/convert/ppt"]} ELSE {})

\* a registration that is switched off in production only
MintRoutesUnlessProduction(b, nodeEnv) ==
  IF b = "server.ts" /\ nodeEnv # "production" THEN {TestTokenRoute} ELSE {}

\* if (process.env.NODE_ENV === 'development') app.get('/test/token', ...)
MintRoutes(b, nodeEnv) ==
  IF b = "server.ts" /\ nodeEnv = "development" THEN {TestTokenRoute} ELSE {}

RegisteredRoutes(b, nodeEnv) ==
  {HealthRoute} \cup MintRoutes(b, nodeEnv) \cup ProtectedRoutes(b)

(***************************************************************************)
(* State.                                                                  *)
(***************************************************************************)
VARIABLES
  env,      \* process.env: JWT_SECRET, NODE_ENV, ALLOWED_ORIGINS
  build,    \* which build of server.ts runs
  proc,     \* "loading", "listening" or "exited"
  routes,   \* the routes registered on app
  now,      \* Math.floor(Date.now() / 1000)
  pc,       \* where the request in flight is in the middleware chain
  req,      \* the request, as far as the chain has read it
  res,      \* the response
  err,      \* the error passed to next(err)
  calls,    \* how often each function ran for the request
  outcome,  \* the branch authenticateJWT took for the request
  log,      \* console output for the request
  peer      \* a second request at authenticateJWT while the first is in flight

Unauthenticated == [kind |-> "Unauthenticated", at |-> -1]

vars == <<env, build, proc, routes, now, pc, req, res, err, calls, outcome, log, peer>>

NoPeer ==
  [stage |-> "none", authorization |-> NoAuthorization, kind |-> "Unauthenticated",
   at |-> -1, status |-> 0, attached |-> FALSE]

\* an authenticateJWT that keeps the last admission in a module-level
\* variable and admits whoever comes after it
GateDecisionRemembers(h) ==
  IF outcome.kind = "Admitted" \/ peer.kind = "Admitted"
  THEN [kind |-> "Admitted", verified |-> 0, next |-> 1, sent |-> 0,
        attached |-> TRUE, payload |-> NoPayload]
  ELSE AuthDecision(h, env.JWT_SECRET, now)

\* authenticateJWT as the process runs it: it reads the header of the request,
\* the module-level JWT_SECRET and the clock
GateDecision(h) == AuthDecision(h, env.JWT_SECRET, now)

NoResponse == [sent |-> 0, status |-> 0, error |-> "", message |-> "", token |-> "", by |-> ""]

\* res.status(status).json({error, message}) or res.send / res.end
Respond(r, status, error, message, by) ==
  [sent |-> r.sent + 1, status |-> status, error |-> error, message |-> message,
   token |-> "", by |-> by]

NoCalls ==
  [authenticateJWT |-> 0, verify |-> 0, next |-> 0, reject |-> 0, generateToken |-> 0,
   parse |-> 0, upload |-> 0, handler |-> 0, convert |-> 0]

NewRequest(line) ==
  [method |-> line.method, path |-> line.path, origin |-> "", body |-> "unread",
   authorization |-> NoAuthorization, hasFile |-> FALSE, file |-> NoFile,
   attached |-> FALSE, jwtPayload |-> NoPayload]

Line(r) == [method |-> r.method, path |-> r.path]

Init ==
  /\ env \in [JWT_SECRET : SecretValues, NODE_ENV : NodeEnvValues,
              ALLOWED_ORIGINS : AllowedOriginsValues]
  /\ build \in Builds
  /\ proc = "loading"
  /\ routes = {}
  /\ now = 0
  /\ pc = "idle"
  /\ req = NewRequest(HealthRoute)
  /\ res = NoResponse
  /\ err = ""
  /\ calls = NoCalls
  /\ outcome = Unauthenticated
  /\ log = <<>>
  /\ peer = NoPeer

(***************************************************************************)
(* Actions.                                                                *)
(***************************************************************************)
\* module initialisation: auth.ts exits when JWT_SECRET is falsy, otherwise
\* server.ts registers its routes and listens
Startup ==
  /\ proc = "loading"
  /\ IF SecretMissing(env.JWT_SECRET)
     THEN /\ proc' = "exited"
          /\ routes' = {}
          /\ log' = log \o <<"ERROR: JWT_SECRET environment variable is not set!">>
     ELSE /\ proc' = "listening"
          /\ routes' = RegisteredRoutes(build, env.NODE_ENV)
          /\ log' = log \o <<"Document Converter Service running">>
  /\ UNCHANGED <<peer, env, build, now, pc, req, res, err, calls, outcome>>

\* Date.now() advances; a finished request no longer observes the clock
Tick ==
  /\ proc = "listening"
  /\ pc # "done" \/ peer.stage = "waiting"
  /\ \E t \in Instants : t > now /\ now' = t
  /\ UNCHANGED <<peer, env, build, proc, routes, pc, req, res, err, calls, outcome, log>>

\* a request arrives and enters the middleware chain
Arrive ==
  /\ proc = "listening"
  /\ pc \in {"idle", "done"}
  /\ \E line \in RequestLines : req' = NewRequest(line)
  /\ pc' = "cors"
  /\ res' = NoResponse
  /\ err' = ""
  /\ calls' = NoCalls
  /\ outcome' = Unauthenticated
  /\ log' = <<>>
  /\ peer' = NoPeer
  /\ UNCHANGED <<env, build, proc, routes, now>>

\* app.use(cors()) in server.ts, app.use(cors(configureCors())) in part_002
CorsMiddleware ==
  /\ pc = "cors"
  /\ \E origin \in Origins :
       LET verdict == IF build = "part_002"
                      THEN OriginCallback(origin, env.ALLOWED_ORIGINS)
                      ELSE "allow"
           warned == build = "part_002" /\ origin # ""
                       /\ Len(AllowedOriginsOf(env.ALLOWED_ORIGINS)) = 0
       IN  /\ req' = [req EXCEPT !.origin = origin]
           /\ log' = IF warned THEN log \o <<"ALLOWED_ORIGINS not set - allowing all origins">>
                     ELSE log
           /\ IF verdict = "error"
              THEN /\ err' = CorsErrorMessage(origin)
                   /\ pc' = "error"
                   /\ res' = res
              ELSE IF req.method = "OPTIONS"
              THEN \* preflight: status optionsSuccessStatus, Content-Length 0, res.end()
                   /\ res' = Respond(res, IF build = "part_002" THEN 200 ELSE 204, "", "", "cors")
                   /\ pc' = "done"
                   /\ err' = err
              ELSE /\ pc' = "json"
                   /\ UNCHANGED <<res, err>>
  /\ UNCHANGED <<peer, env, build, proc, routes, now, calls, outcome>>

\* app.use(express.json())
JsonMiddleware ==
  /\ pc = "json"
  /\ \E body \in Bodies :
       /\ req' = [req EXCEPT !.body = body]
       /\ calls' = IF body = "multipart" THEN calls
                   ELSE [calls EXCEPT !.parse = @ + 1]
       /\ IF body = "badjson"
          THEN err' = "Unexpected token in JSON" /\ pc' = "error"
          ELSE err' = err /\ pc' = "route"
  /\ UNCHANGED <<peer, env, build, proc, routes, now, res, outcome, log>>

\* app.get('/health', ...)
HealthHandler ==
  /\ pc = "route"
  /\ Line(req) = HealthRoute
  /\ Line(req) \in routes
  /\ res' = Respond(res, 200, "", "ok", "health")
  /\ pc' = "done"
  /\ UNCHANGED <<peer, env, build, proc, routes, now, req, err, calls, outcome, log>>

\* app.get('/test/token', ...): registered in development only
TestTokenHandler ==
  /\ pc = "route"
  /\ Line(req) = TestTokenRoute
  /\ Line(req) \in routes
  /\ res' = [Respond(res, 200, "", "This endpoint is only available in development mode",
                     "test/token")
               EXCEPT !.token = generateToken(env.JWT_SECRET, now)]
  /\ calls' = [calls EXCEPT !.generateToken = @ + 1]
  /\ pc' = "done"
  /\ UNCHANGED <<peer, env, build, proc, routes, now, req, err, outcome, log>>

\* no route matches: Express answers 404
NotFound ==
  /\ pc = "route"
  /\ Line(req) \notin routes
  /\ res' = Respond(res, 404, "", "Cannot " \o req.method \o " " \o req.path, "express")
  /\ pc' = "done"
  /\ UNCHANGED <<peer, env, build, proc, routes, now, req, err, calls, outcome, log>>

\* authenticateJWT, the first handler of every /convert route
AuthenticateJWT ==
  /\ pc = "route"
  /\ Line(req) \in routes \cap ProtectedRoutes(build)
  /\ \E h \in HeadersAt(now) :
       LET d == GateDecision(h)
           b == RejectionBody(d.kind)
       IN  /\ req' = [req EXCEPT !.authorization = h,
                                 !.attached = d.attached,
                                 !.jwtPayload = d.payload]
           /\ outcome' = [kind |-> d.kind, at |-> now]
           /\ calls' = [calls EXCEPT !.authenticateJWT = @ + 1,
                                     !.verify = @ + d.verified,
                                     !.next = @ + d.next,
                                     !.reject = @ + d.sent]
           /\ res' = IF d.sent > 0
                     THEN Respond(res, b.status, b.error, b.message, "authenticateJWT")
                     ELSE res
           /\ pc' = IF d.next > 0 THEN "upload" ELSE "done"
  /\ UNCHANGED <<peer, env, build, proc, routes, now, err, log>>

\* upload.single('file'): multer reads the multipart body into req.file; a
\* body that is not multipart carries no file
UploadSingle ==
  /\ pc = "upload"
  /\ calls' = [calls EXCEPT !.upload = @ + 1]
  /\ \E f \in (IF req.body = "multipart" THEN Uploads ELSE {}) \cup {NoFile} :
       IF f.sizeMB > FileSizeLimitMB
       THEN /\ err' = "File too large"
            /\ pc' = "error"
            /\ req' = req
       ELSE /\ req' = [req EXCEPT !.hasFile = (f # NoFile), !.file = f]
            /\ pc' = "handler"
            /\ err' = err
  /\ UNCHANGED <<peer, env, build, proc, routes, now, res, outcome, log>>

\* the validation the route's handler applies (part_002 only)
Validation(b, path, file) ==
  IF b = "server.ts" THEN [valid |-> TRUE, error |-> ""]
  ELSE IF path = "/convert/docx" THEN validateDocxFile(file)
  ELSE IF path = "/convert/pptx" THEN validatePptxFile(file)
  ELSE validatePptFile(file)

\* the async handler of a /convert route
ConvertHandler ==
  /\ pc = "handler"
  /\ pc' = "done"
  /\ IF ~req.hasFile
     THEN /\ res' = Respond(res, 400, "No file uploaded", "", "handler")
          /\ calls' = [calls EXCEPT !.handler = @ + 1]
          /\ log' = log
     ELSE LET validation == Validation(build, req.path, req.file)
          IN  IF ~validation.valid
              THEN /\ res' = Respond(res, 400, validation.error, "", "handler")
                   /\ calls' = [calls EXCEPT !.handler = @ + 1]
                   /\ log' = log
              ELSE /\ calls' = [calls EXCEPT !.handler = @ + 1, !.convert = @ + 1]
                   /\ \E converted \in BOOLEAN :
                        IF converted
                        THEN /\ res' = Respond(res, 200, "", "application/pdf", "handler")
                             /\ log' = log \o <<"Conversion Starting", "Conversion Success">>
                        ELSE /\ res' = Respond(res, 500, "Conversion failed",
                                               "Failed to convert to PDF", "handler")
                             /\ log' = log \o <<"Conversion Starting", "Conversion Error">>
  /\ UNCHANGED <<peer, env, build, proc, routes, now, req, err, outcome>>

\* the error-handling middleware registered last
ErrorMiddleware ==
  /\ pc = "error"
  /\ res' = Respond(res, 500, "Internal server error", err, "errorMiddleware")
  /\ log' = log \o <<"Unhandled error:">>
  /\ pc' = "done"
  /\ UNCHANGED <<peer, env, build, proc, routes, now, req, err, calls, outcome>>

Next ==
  \/ Startup
  \/ Tick
  \/ Arrive
  \/ CorsMiddleware
  \/ JsonMiddleware
  \/ HealthHandler
  \/ TestTokenHandler
  \/ NotFound
  \/ AuthenticateJWT
  \/ UploadSingle
  \/ ConvertHandler
  \/ ErrorMiddleware

Spec == Init /\ [][Next]_vars

(***************************************************************************)
(* Two requests at the gate.  authenticateJWT is synchronous, so the       *)
(* invocations for two requests in flight interleave as wholes, in either  *)
(* order and with the clock advancing between them.                        *)
(***************************************************************************)
\* the headers the second request can carry
PeerHeaders ==
  {NoAuthorization,
   AuthorizationHeader(BearerPrefix \o EternalToken),
   AuthorizationHeader(BearerPrefix \o
     SignClaims([service |-> ExpectedService, iat |-> NoClaim, exp |-> TTL], "s1")),
   AuthorizationHeader(BearerPrefix \o
     SignClaims([service |-> ExpectedService, iat |-> NoClaim, exp |-> NoClaim], "s2")),
   AuthorizationHeader(BearerPrefix \o
     SignClaims([service |-> "backend-y", iat |-> NoClaim, exp |-> NoClaim], "s1"))}

\* a second request reaches a /convert route while the first, a multipart
\* upload without an Origin header, waits at the gate
PeerArrive ==
  /\ proc = "listening"
  /\ peer.stage = "none"
  /\ Line(req) \in routes \cap ProtectedRoutes(build)
  /\ pc = "route"
  /\ req.origin = ""
  /\ req.body = "multipart"
  /\ peer' = [peer EXCEPT !.stage = "waiting"]
  /\ UNCHANGED <<env, build, proc, routes, now, pc, req, res, err, calls, outcome, log>>

\* authenticateJWT runs for the second request
PeerAuthenticate ==
  /\ peer.stage = "waiting"
  /\ \E h \in PeerHeaders :
       LET d == GateDecision(h)
       IN  peer' = [stage |-> "decided", authorization |-> h, kind |-> d.kind,
                    at |-> now,
                    status |-> IF d.sent > 0 THEN RejectionBody(d.kind).status ELSE 0,
                    attached |-> d.attached]
  /\ UNCHANGED <<env, build, proc, routes, now, pc, req, res, err, calls, outcome, log>>

InitConcurrent ==
  /\ Init
  /\ env.JWT_SECRET = "s1"
  /\ env.NODE_ENV = "development"
  /\ env.ALLOWED_ORIGINS = ""
  /\ build = "server.ts"

\* both requests are followed up to the decision of the gate; what multer and
\* the converters do with an admitted request is followed in Spec
NextConcurrent ==
  \/ Startup
  \/ Tick
  \/ Arrive
  \/ CorsMiddleware
  \/ JsonMiddleware
  \/ HealthHandler
  \/ TestTokenHandler
  \/ NotFound
  \/ AuthenticateJWT
  \/ ErrorMiddleware
  \/ PeerArrive
  \/ PeerAuthenticate

SpecConcurrent == InitConcurrent /\ [][NextConcurrent]_vars

TypeOK ==
  /\ proc \in {"loading", "listening", "exited"}
  /\ pc \in {"idle", "cors", "json", "route", "upload", "handler", "error", "done"}
  /\ now \in Instants
  /\ res.sent \in 0..1

(***************************************************************************)
(* Vocabulary of the properties.  A presented header is described by how   *)
(* it was built (the claims, the signing secret, the scheme prefix), not   *)
(* by what the verification makes of it.                                   *)
(***************************************************************************)
\* the headers "Bearer <token>" of the tokens that sign claims with a secret
Presentations ==
  { [claims |-> c, secret |-> k,
     header |-> AuthorizationHeader(BearerPrefix \o SignClaims(c, k))] :
      c \in PresentedClaims, k \in SigningSecrets }
    \cup { [claims |-> i.claims, secret |-> i.secret, header |-> i.header] :
             i \in Issuances }

\* the request presents the token that signs claims c with secret k
Presents(c, k) ==
  \E p \in Presentations :
    p.claims = c /\ p.secret = k /\ p.header = req.authorization

\* the headers that begin with the scheme prefix
BearerHeaders ==
  {AuthorizationHeader(BearerPrefix \o tok) : tok \in PresentedTokens}
    \cup {i.header : i \in Issuances}

\* authenticateJWT has run for the request in flight
Gated == calls.authenticateJWT > 0

\* the request was admitted: next() was called
AdmittedReq == calls.next > 0

\* the response the request got is the one authenticateJWT sent
RejectedWith(status, error, message) ==
  /\ calls.reject = 1
  /\ calls.next = 0
  /\ res.sent = 1
  /\ res.by = "authenticateJWT"
  /\ res.status = status
  /\ res.error = error
  /\ res.message = message

\* the request is for a route registered behind authenticateJWT
OnProtectedRoute == Line(req) \in ProtectedRoutes(build)

(***************************************************************************)
(* C1 (as stated): a request is admitted only if its token is signed with  *)
(* the configured JWT_SECRET, its service claim is 'learnkata-backend' and *)
(* the time of the check is <= the token's expiresAt.  Fails: a token      *)
(* that carries no exp claim has no expiresAt and is admitted.             *)
(***************************************************************************)
C1_AdmitOnlyUnexpiredAsStated ==
  AdmittedReq =>
    \E p \in Presentations :
      /\ p.header = req.authorization
      /\ p.secret = env.JWT_SECRET
      /\ p.claims.service = ExpectedService
      /\ p.claims.exp # NoClaim
      /\ outcome.at <= p.claims.exp

(***************************************************************************)
(* C1 (amended): a request is admitted only if its token is signed with    *)
(* the configured JWT_SECRET, its service claim is 'learnkata-backend'     *)
(* and, when the token carries an exp claim, the time of the check is      *)
(* <= exp.                                                                 *)
(***************************************************************************)
C1_AdmitOnlyValid ==
  AdmittedReq =>
    \E p \in Presentations :
      /\ p.header = req.authorization
      /\ p.secret = env.JWT_SECRET
      /\ p.claims.service = ExpectedService
      /\ (p.claims.exp = NoClaim \/ outcome.at <= p.claims.exp)

\* a token expiring at TTL is admitted one second before
C1_Witness ==
  /\ AdmittedReq
  /\ Presents([service |-> ExpectedService, iat |-> NoClaim, exp |-> TTL], env.JWT_SECRET)
  /\ outcome.at = TTL - 1

(***************************************************************************)
(* C2 (as stated): every token signed with the configured secret, with     *)
(* the expected service claim and with check time <= expiresAt - the       *)
(* instant check time = expiresAt included - presented as                  *)
(* 'Bearer <token>' is admitted: next is called, no error response.        *)
(***************************************************************************)
C2_ValidAdmittedAsStated ==
  Gated =>
    \/ (calls.next = 1 /\ calls.reject = 0)
    \/ ~ \E p \in Presentations :
           /\ p.header = req.authorization
           /\ p.secret = env.JWT_SECRET
           /\ p.claims.service = ExpectedService
           /\ p.claims.exp # NoClaim
           /\ outcome.at <= p.claims.exp

(***************************************************************************)
(* C2 (amended): every token signed with the configured secret, with the   *)
(* expected service claim and with check time strictly before its          *)
(* expiresAt, presented as 'Bearer <token>', is admitted: next is called   *)
(* and no error response is sent.                                          *)
(***************************************************************************)
C2_ValidAdmitted ==
  Gated =>
    \/ (calls.next = 1 /\ calls.reject = 0)
    \/ ~ \E p \in Presentations :
           /\ p.header = req.authorization
           /\ p.secret = env.JWT_SECRET
           /\ p.claims.service = ExpectedService
           /\ p.claims.exp # NoClaim
           /\ outcome.at < p.claims.exp

\* a token expiring at 1 is presented at 0 and passes the gate
C2_Witness ==
  /\ Gated
  /\ Presents([service |-> ExpectedService, iat |-> NoClaim, exp |-> 1], env.JWT_SECRET)
  /\ outcome.at = 0
  /\ calls.next = 1
  /\ pc = "upload"

(***************************************************************************)
(* C3: every token signed with a secret other than the configured one is   *)
(* rejected with 401 'Invalid token', whatever its claims: expired or      *)
(* not, with the expected, a wrong or no service claim.                    *)
(***************************************************************************)
C3_OtherSecretInvalid ==
  Gated =>
    \/ (outcome.kind = "InvalidCredential"
          /\ RejectedWith(401, "Unauthorized", "Invalid token"))
    \/ ~ \E p \in Presentations :
           p.header = req.authorization /\ p.secret # env.JWT_SECRET

\* an expired token for another service, signed with another secret
C3_Witness ==
  /\ Gated
  /\ \E k \in SigningSecrets \ {env.JWT_SECRET} :
       Presents([service |-> "backend-y", iat |-> NoClaim, exp |-> 0], k)
  /\ outcome.at = 1
  /\ outcome.kind = "InvalidCredential"

(***************************************************************************)
(* C4 (as stated): every token whose expiresAt is before the check time    *)
(* is rejected with 401 'Token has expired'.  Fails for an expired token   *)
(* signed with another secret, which is an invalid token (C3).             *)
(***************************************************************************)
C4_PastExpiryExpiredAsStated ==
  Gated =>
    \/ (outcome.kind = "ExpiredCredential"
          /\ RejectedWith(401, "Unauthorized", "Token has expired"))
    \/ ~ \E p \in Presentations :
           /\ p.header = req.authorization
           /\ p.claims.exp # NoClaim
           /\ p.claims.exp < outcome.at

(***************************************************************************)
(* C4 (amended): every token signed with the configured secret whose       *)
(* expiresAt is before the check time is rejected with 401 'Token has      *)
(* expired', whatever its service claim.                                   *)
(***************************************************************************)
C4_PastExpiryExpired ==
  Gated =>
    \/ (outcome.kind = "ExpiredCredential"
          /\ RejectedWith(401, "Unauthorized", "Token has expired"))
    \/ ~ \E p \in Presentations :
           /\ p.header = req.authorization
           /\ p.secret = env.JWT_SECRET
           /\ p.claims.exp # NoClaim
           /\ p.claims.exp < outcome.at

\* a well-signed token of the expected service, one second after its expiry
C4_Witness ==
  /\ Gated
  /\ Presents([service |-> ExpectedService, iat |-> NoClaim, exp |-> TTL], env.JWT_SECRET)
  /\ outcome.at = TTL + 1
  /\ outcome.kind = "ExpiredCredential"

C6_NoBearerRejectedUnverified ==
  Gated =>
    \/ /\ outcome.kind = "MissingOrMalformedCredential"
       /\ RejectedWith(401, "Unauthorized",
                       "Missing or invalid authorization header. Expected: Bearer <token>")
       /\ calls.verify = 0
    \/ (req.authorization.present /\ req.authorization \in BearerHeaders)

\* a header "Bearer<token>" without the space, carrying a token that verifies
C6_Witness ==
  /\ Gated
  /\ req.authorization = AuthorizationHeader("Bearer" \o EternalToken)
  /\ outcome.kind = "MissingOrMalformedCredential"
  /\ calls.verify = 0

(***************************************************************************)
(* C7: on a protected route no response is sent and no work (body          *)
(* parsing) is done unless authenticateJWT has run for the request.        *)
(***************************************************************************)
C7_GateBeforeWorkOrResponse ==
  (OnProtectedRoute /\ (res.sent > 0 \/ calls.parse > 0)) => Gated

(***************************************************************************)
(* C8: authenticateJWT decides a request once and terminally: it runs at   *)
(* most once and verifies at most once; when it has run, exactly one of    *)
(* 'next called' and 'error response sent' has happened, once; a rejected  *)
(* request is finished and upload parsing, validation and conversion       *)
(* never ran for it.                                                       *)
(***************************************************************************)
C8_DecidedOnce ==
  /\ calls.authenticateJWT <= 1
  /\ calls.verify <= 1
  /\ Gated => calls.next + calls.reject = 1
  /\ Gated => (outcome.kind = "Admitted") = (calls.next = 1)
  /\ (Gated /\ calls.reject > 0) =>
       /\ pc = "done"
       /\ calls.upload = 0
       /\ calls.handler = 0
       /\ calls.convert = 0
       /\ res.sent = 1
       /\ res.by = "authenticateJWT"

\* a rejected request at rest
C8_Witness ==
  /\ Gated
  /\ outcome.kind = "InvalidCredential"
  /\ calls.reject = 1
  /\ calls.next = 0
  /\ pc = "done"

(***************************************************************************)
(* C9: when NODE_ENV is anything but 'development' (unset included), GET   *)
(* /test/token is not registered, generateToken is never invoked and no    *)
(* response carries a token.                                               *)
(***************************************************************************)
C9_NoMintingOutsideDevelopment ==
  env.NODE_ENV # "development" =>
    /\ TestTokenRoute \notin routes
    /\ calls.generateToken = 0
    /\ res.token = ""

\* with NODE_ENV unset, server.ts answers GET /test/token with 404
C9_Witness ==
  /\ build = "server.ts"
  /\ env.NODE_ENV = ""
  /\ Line(req) = TestTokenRoute
  /\ pc = "done"
  /\ res.status = 404

(***************************************************************************)
(* C10: a missing-or-malformed, invalid or expired credential is answered  *)
(* with 401 and {error: 'Unauthorized', message}, a wrong principal with   *)
(* 403 and {error: 'Forbidden', message}; a rejection of these four kinds  *)
(* has no other status or error category.                                  *)
(***************************************************************************)
C10_RejectionTransport ==
  /\ outcome.kind \in {"MissingOrMalformedCredential", "InvalidCredential", "ExpiredCredential"}
       => /\ res.status = 401
          /\ res.error = "Unauthorized"
          /\ res.message # ""
          /\ res.by = "authenticateJWT"
  /\ outcome.kind = "WrongPrincipal"
       => /\ res.status = 403
          /\ res.error = "Forbidden"
          /\ res.message # ""
          /\ res.by = "authenticateJWT"
  /\ (res.by = "authenticateJWT" /\ res.status = 403) => outcome.kind = "WrongPrincipal"
  /\ (res.by = "authenticateJWT" /\ res.status = 401)
       => outcome.kind \in {"MissingOrMalformedCredential", "InvalidCredential",
                            "ExpiredCredential"}
  /\ (res.by = "authenticateJWT" /\ res.status \notin {401, 403})
       => outcome.kind = "VerificationMechanismFault"

\* a wrong principal answered with 403 Forbidden
C10_Witness ==
  /\ outcome.kind = "WrongPrincipal"
  /\ res.status = 403
  /\ res.error = "Forbidden"

\* C11: when JWT_SECRET is unset or empty at start the process exits while the
\* modules load: it never listens, registers no route, and no request is
\* received, answered or passed to any function
C11_NoSecretNoService ==
  env.JWT_SECRET = "" =>
    /\ proc # "listening"
    /\ routes = {}
    /\ pc = "idle"
    /\ res = NoResponse
    /\ calls = NoCalls
    /\ outcome = Unauthenticated

C11_Witness == env.JWT_SECRET = "" /\ proc = "exited"

\* C12: a token minted by generateToken and presented as "Bearer <token>" at
\* the instant of its minting, to a gate configured with the secret that
\* signed it, is admitted
C12_MintedAdmittedAtOnce ==
  Gated =>
    \/ (calls.next = 1 /\ calls.reject = 0 /\ outcome.kind = "Admitted")
    \/ ~ \E i \in Issuances :
           /\ i.header = req.authorization
           /\ i.secret = env.JWT_SECRET
           /\ i.at = outcome.at

\* a token minted at instant 1 is admitted at instant 1
C12_Witness ==
  /\ Gated
  /\ outcome.at = 1
  /\ req.authorization
       = AuthorizationHeader(BearerPrefix \o generateToken(env.JWT_SECRET, 1))
  /\ calls.next = 1

\* C13: a token minted at t for the expected service and the configured secret
\* is rejected as expired (401, 'Token has expired') when it is validated
\* more than TTL seconds after t, and admitted when it is validated at t
C13_MintedExpiresAfterTTL ==
  Gated =>
    \A i \in Issuances :
      (i.header = req.authorization /\ i.secret = env.JWT_SECRET) =>
        /\ (outcome.at - i.at > TTL) =>
             /\ outcome.kind = "ExpiredCredential"
             /\ RejectedWith(401, "Unauthorized", "Token has expired")
        /\ (outcome.at = i.at) => (outcome.kind = "Admitted" /\ calls.next = 1)

\* the token minted at instant 0 is found expired at instant TTL + 1
C13_Witness ==
  /\ Gated
  /\ outcome.at = TTL + 1
  /\ req.authorization
       = AuthorizationHeader(BearerPrefix \o generateToken(env.JWT_SECRET, 0))
  /\ outcome.kind = "ExpiredCredential"

\* C14: the kind reported is that of the first check that fails, in the
\* order header, signature, expiry (clockTimestamp >= exp), service: a header
\* without the scheme is missing-or-malformed whatever follows it, a token
\* signed with another secret is invalid whatever its expiry and service,
\* and a token of the configured secret that is expired and names another
\* service is expired (401), not forbidden (403)
C14_FirstFailingCheck ==
  Gated =>
    /\ (req.authorization \notin BearerHeaders)
         => outcome.kind = "MissingOrMalformedCredential"
    /\ \A p \in Presentations :
         (p.header = req.authorization) =>
           outcome.kind =
             IF p.secret # env.JWT_SECRET THEN "InvalidCredential"
             ELSE IF p.claims.exp # NoClaim /\ p.claims.exp <= outcome.at
                  THEN "ExpiredCredential"
             ELSE IF p.claims.service # ExpectedService THEN "WrongPrincipal"
             ELSE "Admitted"
    /\ outcome.kind = "ExpiredCredential" => res.status = 401

\* an expired token of the configured secret for another service is answered
\* as expired
C14_Witness ==
  /\ Gated
  /\ Presents([service |-> "backend-y", iat |-> NoClaim, exp |-> 0], env.JWT_SECRET)
  /\ outcome.at = 1
  /\ outcome.kind = "ExpiredCredential"
  /\ res.status = 401

\* the headers "Bearer <token>" whose token is not a signed claims object
MalformedHeaders == {AuthorizationHeader(BearerPrefix \o tok) : tok \in OddTokens}

\* C15: an expired token of the configured secret is answered with
\* 'Token has expired', never with 'Invalid token'; a token signed with
\* another secret or malformed is rejected with another message, so the
\* message field tells the two apart
C15_ExpiredToldFromInvalid ==
  Gated =>
    /\ (\E p \in Presentations :
          /\ p.header = req.authorization
          /\ p.secret = env.JWT_SECRET
          /\ p.claims.exp # NoClaim
          /\ p.claims.exp < outcome.at)
         => /\ RejectedWith(401, "Unauthorized", "Token has expired")
            /\ res.message # "Invalid token"
    /\ (\/ req.authorization \in MalformedHeaders
        \/ \E p \in Presentations :
             p.header = req.authorization /\ p.secret # env.JWT_SECRET)
         => /\ calls.reject = 1
            /\ res.sent = 1
            /\ res.message # "Token has expired"

\* a token without dots is answered with 'Invalid token'
C15_Witness ==
  /\ Gated
  /\ req.authorization = AuthorizationHeader(BearerPrefix \o "garbage")
  /\ res.status = 401
  /\ res.message = "Invalid token"

(***************************************************************************)
(* C16 (as stated): every rejection appends a record to the log.  Fails:   *)
(* authenticateJWT writes nothing to the console on any of its branches.   *)
(***************************************************************************)
C16_RejectionLogged ==
  (Gated /\ calls.reject > 0) => Len(log) > 0

\* the tokens whose payload part does not parse: jwt.verify throws the
\* SyntaxError of JSON.parse
FaultingTokens == {"H.{oops.sig", "H.learnkata-backend,soon,.sig"}

\* C17: a verification that throws neither an expiry nor a JWT validation
\* error is answered with 500 and the fixed body {error: 'Internal server
\* error', message: 'Token verification failed'}: never 401 or 403, never
\* admitted, and the same body whatever was thrown
C17_FaultIsGeneric500 ==
  Gated =>
    /\ (req.authorization \in
          {AuthorizationHeader(BearerPrefix \o tok) : tok \in FaultingTokens})
         => outcome.kind = "VerificationMechanismFault"
    /\ (outcome.kind = "VerificationMechanismFault")
         => /\ RejectedWith(500, "Internal server error", "Token verification failed")
            /\ res.status \notin {401, 403}
            /\ res.token = ""
            /\ ~ req.attached
            /\ pc = "done"

\* a payload that is not JSON is answered with 500
C17_Witness ==
  /\ Gated
  /\ req.authorization = AuthorizationHeader(BearerPrefix \o "H.{oops.sig")
  /\ res.status = 500
  /\ res.message = "Token verification failed"

\* C19: a token minted by generateToken carries the signature of the
\* configured secret, service = 'learnkata-backend', iat = the instant of
\* minting and exp = iat + 3600; the gate that admits a minted token reads
\* these claims back
C19_MintedClaims ==
  /\ (res.token # "") =>
       LET parts == Split(res.token, ".")
           d == DecodePayload(parts[2])
       IN  /\ Len(parts) = 3
           /\ d.ok
           /\ SignatureValid(parts, env.JWT_SECRET)
           /\ d.claims.service = ExpectedService
           /\ d.claims.iat = now
           /\ d.claims.exp - d.claims.iat = TTL
  /\ (Gated /\ calls.next = 1) =>
       \A i \in Issuances :
         (i.header = req.authorization) =>
           /\ i.secret = env.JWT_SECRET
           /\ req.jwtPayload.service = ExpectedService
           /\ req.jwtPayload.iat = i.at
           /\ req.jwtPayload.exp = i.at + TTL

\* GET /test/token answered at instant 1
C19_Witness ==
  /\ calls.generateToken = 1
  /\ res.token = generateToken(env.JWT_SECRET, 1)
  /\ now = 1

\* C20: req.jwtPayload is set exactly when the request is admitted; a
\* rejected request (401, 403 or 500) carries no claims, and the claims of
\* an admitted request are those the presented token signs
C20_ClaimsAttachedIffAdmitted ==
  /\ req.attached <=> calls.next = 1
  /\ (calls.reject > 0) => (~ req.attached /\ req.jwtPayload = NoPayload)
  /\ (calls.next = 1) =>
       \E p \in Presentations :
         p.header = req.authorization /\ req.jwtPayload = p.claims

\* an admitted request carries the claims of its token
C20_Witness ==
  /\ calls.next = 1
  /\ req.attached
  /\ req.jwtPayload = [service |-> ExpectedService, iat |-> NoClaim, exp |-> TTL]

\* what a decided request shows is what authenticateJWT computes from the
\* header of that request, the configured secret and the clock at its
\* decision, whichever of the two requests was decided first
C18_FunctionOfInputs ==
  /\ Gated =>
       outcome.kind = AuthDecision(req.authorization, env.JWT_SECRET, outcome.at).kind
  /\ (peer.stage = "decided") =>
       peer.kind = AuthDecision(peer.authorization, env.JWT_SECRET, peer.at).kind
  /\ (Gated /\ peer.stage = "decided"
        /\ peer.authorization = req.authorization /\ peer.at = outcome.at)
       => /\ peer.kind = outcome.kind
          /\ peer.attached = req.attached
          /\ (calls.reject = 1) => (res.status = peer.status)

\* no step changes process.env, and the decision for one request leaves the
\* other request, the routes and the console as they were
C18_Frame ==
  /\ env' = env
  /\ (peer' # peer /\ peer'.stage = "decided")
       => UNCHANGED <<req, res, outcome, calls, routes, proc, log>>
  /\ (calls'.authenticateJWT > calls.authenticateJWT)
       => UNCHANGED <<peer, routes, proc, log>>

\* C18: authenticateJWT for two requests in flight, decided in either order:
\* each outcome is a function of that request's header, the secret and the
\* time of its decision alone, and no decision changes the secret or the
\* state of the other request
C18_GateInterleavingSafe == [](C18_FunctionOfInputs) /\ [][C18_Frame]_vars

\* both requests decided at different instants with the same header, the
\* second request first: admitted at TTL - 1, expired at TTL
C18_Witness ==
  /\ Gated
  /\ peer.stage = "decided"
  /\ peer.authorization = req.authorization
  /\ peer.at = TTL - 1
  /\ outcome.at = TTL
  /\ peer.kind = "Admitted"
  /\ outcome.kind = "ExpiredCredential"

\* the type validation of a /convert route
RouteValidation(path, file) ==
  IF path = "/convert/docx" THEN validateDocxFile(file)
  ELSE IF path = "/convert/pptx" THEN validatePptxFile(file)
  ELSE validatePptFile(file)

(***************************************************************************)
(* C21 (as stated): on each /convert route the converter is invoked only   *)
(* for a request that authenticateJWT admitted, that carries a file, and   *)
(* whose file passed the validation of the route; an admitted request      *)
(* without a file or with a file that fails the validation is answered     *)
(* with 400.  Fails in the build server.ts, whose handlers call the        *)
(* converter for every uploaded file.                                      *)
(***************************************************************************)
C21_ConvertOnlyValidated ==
  /\ (calls.convert > 0) =>
       /\ calls.next = 1
       /\ req.hasFile
       /\ RouteValidation(req.path, req.file).valid
  /\ (calls.handler > 0 /\ (~ req.hasFile \/ ~ RouteValidation(req.path, req.file).valid))
       => (res.status = 400 /\ calls.convert = 0)

\* the policy as the entries of ALLOWED_ORIGINS state it: no Origin header,
\* no list, or an Origin that is one of the entries "http://a" and "http://b"
\* of the list "http://a, http://b"
OriginInPolicy ==
  \/ req.origin = ""
  \/ env.ALLOWED_ORIGINS = ""
  \/ (env.ALLOWED_ORIGINS = "http://a, http://b" /\ req.origin \in {"http://a", "http://b"})

\* C22: once cors(configureCors()) has run for a request, the request was
\* passed on exactly when it has no Origin, ALLOWED_ORIGINS is unset or
\* empty, or its Origin is one of the trimmed entries; otherwise the callback
\* reported 'Origin <origin> not allowed by CORS', no later middleware or
\* handler ran, and the error middleware answers 500
C22_CorsPolicy ==
  (build = "part_002" /\ pc \notin {"idle", "cors"}) =>
    IF OriginInPolicy
    THEN err # CorsErrorMessage(req.origin)
    ELSE /\ err = CorsErrorMessage(req.origin)
         /\ pc \in {"error", "done"}
         /\ calls = NoCalls
         /\ (pc = "done") => (res.status = 500 /\ res.by = "errorMiddleware")

\* an Origin that equals the second entry once the entry is trimmed is
\* passed on to express.json()
C22_Witness ==
  /\ build = "part_002"
  /\ env.ALLOWED_ORIGINS = "http://a, http://b"
  /\ req.origin = "http://b"
  /\ pc = "json"

\* C23: a token of the configured secret for 'learnkata-backend' without an
\* exp claim is admitted at every instant, however long after it was signed
C23_NoExpAlwaysAdmitted ==
  Gated =>
    \/ (outcome.kind = "Admitted" /\ calls.next = 1 /\ calls.reject = 0)
    \/ ~ \E p \in Presentations :
           /\ p.header = req.authorization
           /\ p.secret = env.JWT_SECRET
           /\ p.claims.service = ExpectedService
           /\ p.claims.exp = NoClaim

\* the token signed at instant 0 is admitted at instant TTL + 1
C23_Witness ==
  /\ Gated
  /\ Presents(NeverExpiring, env.JWT_SECRET)
  /\ outcome.at = TTL + 1
  /\ calls.next = 1

====
